---- MODULE Spec2Model ----
(***************************************************************************)
(* SatFinder (src/app.py): the five HTTP adapters, the claim accessor, the *)
(* table builder and the search-button handler that sequences them.        *)
(*                                                                         *)
(* Python values are tagged records [t, v]: t is the type, v the payload.  *)
(* A str is a sequence of one-character strings, a dict a function from    *)
(* its keys, a list a sequence.  An exception leaving a call is the value  *)
(* Raised, which every operation propagates.                               *)
(***************************************************************************)
EXTENDS Integers, Sequences, FiniteSets, TLC

VARIABLES
    pc,                 \* position in the search-button handler
    q, use_exact,       \* the text input and the checkbox
    title_ko, title_en, \* search titles
    qid, ent,           \* entity identifier and entity record
    ko_title_from_qid, en_title_from_qid,
    summary, tried,     \* summary chain
    tle, cand_i,        \* catalog chain and its loop index
    df,                 \* the table make_table built
    calls,              \* every adapter call of the run: [fn, args, ret]
    r_status, r_text, tle_out,       \* celestrak_tle on one response
    gc_ent, gc_prop, gc_out,         \* get_claim_value on one entity
    cache, now, last                 \* st.cache_data store, clock, last cached call

vars == <<pc, q, use_exact, title_ko, title_en, qid, ent, ko_title_from_qid,
          en_title_from_qid, summary, tried, tle, cand_i, df, calls,
          r_status, r_text, tle_out, gc_ent, gc_prop, gc_out, cache, now, last>>

handlerVars == <<pc, q, use_exact, title_ko, title_en, qid, ent, ko_title_from_qid,
                 en_title_from_qid, summary, tried, tle, cand_i, df, calls>>
tleVars == <<r_status, r_text, tle_out>>
gcVars == <<gc_ent, gc_prop, gc_out>>
cacheVars == <<cache, now, last>>

---------------------------------------------------------------------------
(* Python values *)

PyNone == [t |-> "none", v |-> <<>>]
PyStr(s) == [t |-> "str", v |-> s]
PyDict(f) == [t |-> "dict", v |-> f]
PyList(s) == [t |-> "list", v |-> s]
Raised == [t |-> "raise", v |-> <<>>]
EmptyDict == PyDict(<<>>)
EmptyList == PyList(<<>>)

\* bool(x): None, "", {} and [] are falsy
Truthy(x) ==
    CASE x.t = "none" -> FALSE
      [] x.t = "str" -> x.v # <<>>
      [] x.t = "dict" -> DOMAIN x.v # {}
      [] x.t = "list" -> x.v # <<>>
      [] OTHER -> FALSE

\* d.get(k, default): AttributeError on anything that is not a dict
Get(d, k, default) ==
    IF d.t # "dict" THEN Raised
    ELSE IF k \in DOMAIN d.v THEN d.v[k] ELSE default

\* d[k]: KeyError when the key is missing, TypeError on a non-dict
Subscript(d, k) ==
    IF d.t = "dict" /\ k \in DOMAIN d.v THEN d.v[k] ELSE Raised

\* x[0] of a truthy x: the head of a list, the first character of a str,
\* KeyError on a dict (its keys are strings)
Index0(x) ==
    CASE x.t = "list" /\ x.v # <<>> -> x.v[1]
      [] x.t = "str" /\ x.v # <<>> -> PyStr(<<x.v[1]>>)
      [] OTHER -> Raised

---------------------------------------------------------------------------
(* Text: str.strip, str.splitlines, substring test *)

\* whitespace characters of the model's alphabet
IsSpace(c) == c \in {" ", "\n"}

RECURSIVE LStrip(_)
LStrip(s) == IF s # <<>> /\ IsSpace(Head(s)) THEN LStrip(Tail(s)) ELSE s

RECURSIVE RStrip(_)
RStrip(s) ==
    IF s # <<>> /\ IsSpace(s[Len(s)]) THEN RStrip(SubSeq(s, 1, Len(s) - 1)) ELSE s

\* str.strip()
Strip(s) == LStrip(RStrip(s))

\* str.splitlines(): break at each "\n"; no empty last line after a final "\n"
RECURSIVE SplitFrom(_, _, _)
SplitFrom(s, cur, acc) ==
    IF s = <<>> THEN (IF cur = <<>> THEN acc ELSE Append(acc, cur))
    ELSE IF Head(s) = "\n" THEN SplitFrom(Tail(s), <<>>, Append(acc, cur))
    ELSE SplitFrom(Tail(s), Append(cur, Head(s)), acc)

SplitLines(s) == SplitFrom(s, <<>>, <<>>)

\* "No GP data" in text: the character "N" stands for one occurrence of the phrase
NoGPData == "N"
Contains(s, c) == \E i \in 1..Len(s) : s[i] = c

\* lines[:n]
Take(s, n) == SubSeq(s, 1, IF Len(s) < n THEN Len(s) ELSE n)

---------------------------------------------------------------------------
(* HTTP responses.  exc: requests.get raised (connection error, timeout);  *)
(* json: what r.json() gives, Raised when the body is not JSON.            *)

Response(exc, status_code, json, text) ==
    [exc |-> exc, status_code |-> status_code, json |-> json, text |-> text]

NetworkError == Response(TRUE, 0, Raised, <<>>)
JsonResponse(status_code, json) == Response(FALSE, status_code, json, <<>>)
TextResponse(status_code, text) == Response(FALSE, status_code, Raised, text)

---------------------------------------------------------------------------
(* Adapters: each is its body applied to the response requests.get gave *)

wiki_search_title(query, lang, r) ==
    IF r.exc THEN Raised
    ELSE LET hits == Get(Get(r.json, "query", EmptyDict), "search", EmptyList)
         IN  IF hits.t = "raise" THEN Raised
             ELSE IF Truthy(hits) THEN Subscript(Index0(hits), "title")
             ELSE PyNone

wiki_summary(title, lang, r) ==
    IF r.exc THEN Raised
    ELSE IF r.status_code = 200 THEN r.json
    ELSE EmptyDict

\* pages.items() in the order of the JSON object
PageOrder == <<"p1", "p2">>

RECURSIVE FirstQid(_, _)
FirstQid(pages, i) ==
    IF i > Len(PageOrder) THEN PyNone
    ELSE IF PageOrder[i] \notin DOMAIN pages.v THEN FirstQid(pages, i + 1)
    ELSE LET item == Get(Get(pages.v[PageOrder[i]], "pageprops", EmptyDict),
                         "wikibase_item", PyNone)
         IN  IF item.t = "raise" THEN Raised
             ELSE IF Truthy(item) THEN item
             ELSE FirstQid(pages, i + 1)

wikidata_qid_from_title(title, lang, r) ==
    IF r.exc THEN Raised
    ELSE LET pages == Get(Get(r.json, "query", EmptyDict), "pages", EmptyDict)
         IN  IF pages.t # "dict" THEN Raised ELSE FirstQid(pages, 1)

wikidata_entity(id, r) ==
    IF r.exc THEN Raised
    ELSE Get(Get(r.json, "entities", EmptyDict), id.v, EmptyDict)

IsNonBlank(l) == Strip(l) # <<>>

celestrak_tle_short(name, r) ==
    IF r.exc THEN Raised
    ELSE IF r.status_code # 200 \/ Contains(r.text, NoGPData) THEN PyNone
    ELSE LET lines == SelectSeq(SplitLines(Strip(r.text)), IsNonBlank)
         IN  IF lines # <<>>
             THEN PyList([i \in 1..Len(Take(lines, 2)) |-> PyStr(lines[i])])
             ELSE PyNone

celestrak_tle(name, r) ==
    IF r.exc THEN Raised
    ELSE IF r.status_code # 200 \/ Contains(r.text, NoGPData) THEN PyNone
    ELSE LET lines == SelectSeq(SplitLines(Strip(r.text)), IsNonBlank)
         IN  IF lines # <<>>
             THEN PyList([i \in 1..Len(Take(lines, 3)) |-> PyStr(lines[i])])
             ELSE PyNone

---------------------------------------------------------------------------
(* Claim accessor and table *)

get_claim_value(e, prop, kind) ==
    LET c == Get(e, "claims", EmptyDict)
        v == Get(c, prop, EmptyList)
    IN  IF v.t = "raise" THEN Raised
        ELSE IF ~Truthy(v) THEN PyNone
        ELSE LET mainsnak == Get(Index0(v), "mainsnak", EmptyDict)
                 dv == Get(mainsnak, "datavalue", EmptyDict)
                 val == Get(dv, "value", PyNone)
             IN  IF val.t = "raise" THEN Raised
                 ELSE IF ~Truthy(val) THEN PyNone
                 ELSE IF kind = "time|str"
                      THEN (IF val.t = "dict" THEN Get(val, "time", PyNone) ELSE val)
                      ELSE val

make_table(s, e, tle_lines) ==
    LET claim(p) == IF Truthy(e) THEN get_claim_value(e, p, "time|str") ELSE PyNone
        launch_date == claim("P619")
        cospar_id == claim("P247")
        norad_id == claim("P593")
        line(i) == IF Len(tle_lines.v) > i THEN tle_lines.v[i + 1] ELSE PyNone
        rows == << <<"Title", Get(s, "title", PyNone)>>,
                   <<"Description", Get(s, "description", PyNone)>>,
                   <<"Launch Date", launch_date>>,
                   <<"COSPAR ID", cospar_id>>,
                   <<"NORAD ID", norad_id>> >>
    IN  IF Raised \in {launch_date, cospar_id, norad_id} THEN Raised
        ELSE IF Truthy(tle_lines)
             THEN PyList(rows \o << <<"TLE Name", line(0)>>,
                                    <<"TLE Line 1", line(1)>>,
                                    <<"TLE Line 2", line(2)>> >>)
             ELSE PyList(rows)

---------------------------------------------------------------------------
(* The inputs the handler is run on *)

\* article titles the services may return; the first is also the typed query
Titles == {PyStr(<<"a">>), PyStr(<<"b">>)}
Queries == {PyStr(<<"a">>), PyStr(<<" ">>)}
Qids == {PyStr(<<"1">>), PyStr(<<"2">>)}

SearchResponses ==
    {NetworkError}
    \cup {JsonResponse(200, j) :
            j \in {Raised, EmptyDict,
                   PyDict([query |-> PyDict([search |-> EmptyList])])}
                  \cup {PyDict([query |-> PyDict([search |->
                            PyList(<<PyDict([title |-> t])>>)])]) : t \in Titles}}

\* the summary of a page names the page and its wiki
SummaryOf(title, lang) ==
    PyDict([title |-> title, lang |-> PyStr(<<lang>>), description |-> PyStr(<<"d">>)])

SummaryResponses(title, lang) ==
    {NetworkError, JsonResponse(404, PyDict([type |-> PyStr(<<"e">>)])),
     JsonResponse(200, Raised), JsonResponse(200, EmptyDict),
     JsonResponse(200, SummaryOf(title, lang))}

PageWith(id) == PyDict([pageprops |-> PyDict([wikibase_item |-> id])])

QidResponses ==
    {NetworkError, JsonResponse(200, Raised), JsonResponse(200, EmptyDict),
     JsonResponse(200, PyDict([query |-> PyDict([pages |-> PyDict([p1 |-> EmptyDict])])]))}
    \cup {JsonResponse(200, PyDict([query |-> PyDict([pages |-> PyDict([p1 |-> PageWith(i)])])]))
            : i \in Qids}
    \cup {JsonResponse(200, PyDict([query |-> PyDict([pages |->
                PyDict([p1 |-> EmptyDict, p2 |-> PageWith(i)])])])) : i \in Qids}

\* a well-formed statement holding a time value, and one whose mainsnak is null
GoodStatement == PyDict([mainsnak |-> PyDict([datavalue |-> PyDict([value |->
                    PyDict([time |-> PyStr(<<"t">>)])])])])
NullSnakStatement == PyDict([mainsnak |-> PyNone])

SiteLinkMaps ==
    {EmptyDict}
    \cup {PyDict([kowiki |-> PyDict([title |-> t])]) : t \in Titles}
    \cup {PyDict([enwiki |-> PyDict([title |-> t])]) : t \in Titles}
    \cup {PyDict([kowiki |-> PyDict([title |-> t]), enwiki |-> PyDict([title |-> u])])
            : t \in Titles, u \in Titles}

HandlerEntities ==
    {EmptyDict}
    \cup {PyDict([sitelinks |-> sl]) : sl \in SiteLinkMaps}
    \cup {PyDict([sitelinks |-> sl, claims |-> PyDict([P619 |-> PyList(<<st>>)])])
            : sl \in SiteLinkMaps, st \in {GoodStatement, NullSnakStatement}}

EntityResponses(id) ==
    {NetworkError, JsonResponse(200, Raised), JsonResponse(200, EmptyDict)}
    \cup {JsonResponse(200, PyDict([entities |-> PyDict(id.v :> e)])) : e \in HandlerEntities}

\* catalog texts: no data, nothing, one line, three lines, four lines with blanks
TleTexts ==
    { <<"N">>, <<" ", "\n">>, <<"a">>, <<"a", "\n", "b", "\n", "a">>,
      <<"b", "\n", "\n", "a", "\n", "b", "\n", "a", "\n">> }

TleResponses ==
    {NetworkError, TextResponse(404, <<"a">>)} \cup {TextResponse(200, x) : x \in TleTexts}

---------------------------------------------------------------------------
(* The search-button handler, one action per step.  Every adapter call     *)
(* draws its response afresh: the memo of the adapters can only make two   *)
(* calls with the same parameters agree, so the runs below include every   *)
(* run of the memoized program.                                            *)

Call(fn, args, ret) == calls' = Append(calls, [fn |-> fn, args |-> args, ret |-> ret])

\* after both searches: stop when neither found a title
AfterSearch_continue(ko, en) == "qid_ko"

AfterSearch(ko, en) ==
    IF ~(Truthy(ko) \/ Truthy(en)) THEN "NotFound" ELSE "qid_ko"

\* the en title is resolved only when no identifier is held yet
NeedQidEn_always(id, en) == Truthy(en)

NeedQidEn(id, en) == ~Truthy(id) /\ Truthy(en)

\* sitelinks.get(site, {}).get("title") if sitelinks else None
SitelinkTitle(e, site) ==
    LET sitelinks == IF Truthy(e) THEN Get(e, "sitelinks", EmptyDict) ELSE EmptyDict
    IN  IF sitelinks.t = "raise" THEN Raised
        ELSE IF Truthy(sitelinks)
             THEN Get(Get(sitelinks, site, EmptyDict), "title", PyNone)
             ELSE PyNone

\* the summary candidates, in the order the handler tries them
SummaryCands_en_first(kq, k, eq, e) ==
    << <<eq, "en">>, <<e, "en">>, <<kq, "ko">>, <<k, "ko">> >>

SummaryCands(kq, k, eq, e) ==
    << <<kq, "ko">>, <<k, "ko">>, <<eq, "en">>, <<e, "en">> >>

\* the catalog candidates of the retry loop
TleCands_ko_first(eq, e, kq, k) == <<kq, k, eq, e>>

TleCands(eq, e, kq, k) == <<eq, e, kq, k>>

\* if tle is None: retry with the titles
NeedFallback_always(x) == TRUE

NeedFallback(x) == x = PyNone

\* the handler before the button is pressed
HandlerIdle ==
    /\ pc = "idle"
    /\ title_ko = PyNone /\ title_en = PyNone
    /\ qid = PyNone /\ ent = PyNone
    /\ ko_title_from_qid = PyNone /\ en_title_from_qid = PyNone
    /\ summary = EmptyDict /\ tried = <<>>
    /\ tle = PyNone /\ cand_i = 1
    /\ df = PyNone
    /\ calls = <<>>

\* a call that has not returned yet
Pending == [t |-> "pending", v |-> <<>>]

TleIdle == r_status = 0 /\ r_text = <<>> /\ tle_out = Pending
GcIdle == gc_ent = EmptyDict /\ gc_prop = "P619" /\ gc_out = Pending
CacheIdle == cache = <<>> /\ now = 0 /\ last = <<>>

Init ==
    /\ q \in Queries
    /\ use_exact \in BOOLEAN
    /\ HandlerIdle
    /\ TleIdle /\ GcIdle /\ CacheIdle

\* if not q.strip(): warning and stop
Click ==
    /\ pc = "idle"
    /\ pc' = IF Strip(q.v) = <<>> THEN "warning" ELSE "search_ko"
    /\ UNCHANGED <<q, use_exact, title_ko, title_en, qid, ent, ko_title_from_qid,
                   en_title_from_qid, summary, tried, tle, cand_i, df, calls>>
    /\ UNCHANGED <<tleVars, gcVars, cacheVars>>

SearchKo ==
    /\ pc = "search_ko"
    /\ \E r \in SearchResponses :
         LET ret == wiki_search_title(q, "ko", r) IN
         /\ Call("wiki_search_title", <<q, "ko">>, ret)
         /\ IF ret = Raised
            THEN pc' = "raised" /\ UNCHANGED title_ko
            ELSE pc' = "search_en" /\ title_ko' = ret
    /\ UNCHANGED <<q, use_exact, title_en, qid, ent, ko_title_from_qid,
                   en_title_from_qid, summary, tried, tle, cand_i, df>>
    /\ UNCHANGED <<tleVars, gcVars, cacheVars>>

SearchEn ==
    /\ pc = "search_en"
    /\ \E r \in SearchResponses :
         LET ret == wiki_search_title(q, "en", r) IN
         /\ Call("wiki_search_title", <<q, "en">>, ret)
         /\ IF ret = Raised
            THEN pc' = "raised" /\ UNCHANGED title_en
            ELSE pc' = AfterSearch(title_ko, ret) /\ title_en' = ret
    /\ UNCHANGED <<q, use_exact, title_ko, qid, ent, ko_title_from_qid,
                   en_title_from_qid, summary, tried, tle, cand_i, df>>
    /\ UNCHANGED <<tleVars, gcVars, cacheVars>>

QidKo ==
    /\ pc = "qid_ko"
    /\ IF Truthy(title_ko)
       THEN \E r \in QidResponses :
              LET ret == wikidata_qid_from_title(title_ko, "ko", r) IN
              /\ Call("wikidata_qid_from_title", <<title_ko, "ko">>, ret)
              /\ IF ret = Raised
                 THEN pc' = "raised" /\ UNCHANGED qid
                 ELSE pc' = "qid_en" /\ qid' = ret
       ELSE pc' = "qid_en" /\ UNCHANGED <<qid, calls>>
    /\ UNCHANGED <<q, use_exact, title_ko, title_en, ent, ko_title_from_qid,
                   en_title_from_qid, summary, tried, tle, cand_i, df>>
    /\ UNCHANGED <<tleVars, gcVars, cacheVars>>

QidEn ==
    /\ pc = "qid_en"
    /\ IF NeedQidEn(qid, title_en)
       THEN \E r \in QidResponses :
              LET ret == wikidata_qid_from_title(title_en, "en", r) IN
              /\ Call("wikidata_qid_from_title", <<title_en, "en">>, ret)
              /\ IF ret = Raised
                 THEN pc' = "raised" /\ UNCHANGED qid
                 ELSE pc' = "entity" /\ qid' = ret
       ELSE pc' = "entity" /\ UNCHANGED <<qid, calls>>
    /\ UNCHANGED <<q, use_exact, title_ko, title_en, ent, ko_title_from_qid,
                   en_title_from_qid, summary, tried, tle, cand_i, df>>
    /\ UNCHANGED <<tleVars, gcVars, cacheVars>>

\* ent = wikidata_entity(qid) if qid else None, then the two sitelink titles
Entity ==
    /\ pc = "entity"
    /\ IF Truthy(qid)
       THEN \E r \in EntityResponses(qid) :
              LET ret == wikidata_entity(qid, r)
                  ko == SitelinkTitle(ret, "kowiki")
                  en == SitelinkTitle(ret, "enwiki")
              IN
              /\ Call("wikidata_entity", <<qid>>, ret)
              /\ IF Raised \in {ret, ko, en}
                 THEN pc' = "raised"
                      /\ UNCHANGED <<ent, ko_title_from_qid, en_title_from_qid>>
                 ELSE pc' = "summary" /\ ent' = ret
                      /\ ko_title_from_qid' = ko /\ en_title_from_qid' = en
       ELSE pc' = "summary" /\ ent' = PyNone
            /\ ko_title_from_qid' = PyNone /\ en_title_from_qid' = PyNone
            /\ UNCHANGED calls
    /\ cand_i' = 1
    /\ UNCHANGED <<q, use_exact, title_ko, title_en, qid, summary, tried, tle, df>>
    /\ UNCHANGED <<tleVars, gcVars, cacheVars>>

\* one "if not summary and <title>" of the chain; after the fourth,
\* "if not summary: error and stop"
SummaryStep ==
    /\ pc = "summary"
    /\ LET c == SummaryCands(ko_title_from_qid, title_ko, en_title_from_qid, title_en)[cand_i]
           next(sm) == IF cand_i < 4 THEN "summary"
                       ELSE IF ~Truthy(sm) THEN "SummaryUnavailable" ELSE "tle_exact"
       IN
       IF ~Truthy(summary) /\ Truthy(c[1])
       THEN \E r \in SummaryResponses(c[1], c[2]) :
              LET ret == wiki_summary(c[1], c[2], r) IN
              /\ Call("wiki_summary", c, ret)
              /\ IF ret = Raised
                 THEN pc' = "raised" /\ UNCHANGED <<summary, tried, cand_i>>
                 ELSE /\ summary' = ret
                      /\ tried' = Append(tried, <<c[2], c[1]>>)
                      /\ pc' = next(ret)
                      /\ cand_i' = IF cand_i < 4 THEN cand_i + 1 ELSE 1
       ELSE /\ pc' = next(summary)
            /\ cand_i' = IF cand_i < 4 THEN cand_i + 1 ELSE 1
            /\ UNCHANGED <<summary, tried, calls>>
    /\ UNCHANGED <<q, use_exact, title_ko, title_en, qid, ent, ko_title_from_qid,
                   en_title_from_qid, tle, df>>
    /\ UNCHANGED <<tleVars, gcVars, cacheVars>>

\* tle = celestrak_tle(q) if use_exact else None
TleExact ==
    /\ pc = "tle_exact"
    /\ IF use_exact
       THEN \E r \in TleResponses :
              LET ret == celestrak_tle(q, r) IN
              /\ Call("celestrak_tle", <<q>>, ret)
              /\ IF ret = Raised
                 THEN pc' = "raised" /\ UNCHANGED tle
                 ELSE tle' = ret
                      /\ pc' = IF NeedFallback(ret) THEN "tle_loop" ELSE "render"
       ELSE tle' = PyNone
            /\ pc' = (IF NeedFallback(PyNone) THEN "tle_loop" ELSE "render")
            /\ UNCHANGED calls
    /\ cand_i' = 1
    /\ UNCHANGED <<q, use_exact, title_ko, title_en, qid, ent, ko_title_from_qid,
                   en_title_from_qid, summary, tried, df>>
    /\ UNCHANGED <<tleVars, gcVars, cacheVars>>

\* one iteration of "for cand in [...]: if cand: tle = ...; if tle: break"
TleLoop ==
    /\ pc = "tle_loop"
    /\ LET cand == TleCands(en_title_from_qid, title_en, ko_title_from_qid, title_ko)[cand_i]
           next == IF cand_i < 4 THEN "tle_loop" ELSE "render"
       IN
       IF Truthy(cand)
       THEN \E r \in TleResponses :
              LET ret == celestrak_tle(cand, r) IN
              /\ Call("celestrak_tle", <<cand>>, ret)
              /\ IF ret = Raised
                 THEN pc' = "raised" /\ UNCHANGED <<tle, cand_i>>
                 ELSE /\ tle' = ret
                      /\ pc' = IF Truthy(ret) THEN "render" ELSE next
                      /\ cand_i' = IF cand_i < 4 THEN cand_i + 1 ELSE cand_i
       ELSE /\ pc' = next
            /\ cand_i' = IF cand_i < 4 THEN cand_i + 1 ELSE cand_i
            /\ UNCHANGED <<tle, calls>>
    /\ UNCHANGED <<q, use_exact, title_ko, title_en, qid, ent, ko_title_from_qid,
                   en_title_from_qid, summary, tried, df>>
    /\ UNCHANGED <<tleVars, gcVars, cacheVars>>

\* df = make_table(summary, ent, tle) and the display
Render ==
    /\ pc = "render"
    /\ LET table == make_table(summary, ent, tle) IN
       /\ df' = table
       /\ pc' = IF table = Raised THEN "raised" ELSE "done"
    /\ UNCHANGED <<q, use_exact, title_ko, title_en, qid, ent, ko_title_from_qid,
                   en_title_from_qid, summary, tried, tle, cand_i, calls>>
    /\ UNCHANGED <<tleVars, gcVars, cacheVars>>

Next ==
    \/ Click
    \/ SearchKo
    \/ SearchEn
    \/ QidKo
    \/ QidEn
    \/ Entity
    \/ SummaryStep
    \/ TleExact
    \/ TleLoop
    \/ Render

Spec == Init /\ [][Next]_vars

---------------------------------------------------------------------------
(* Properties of the handler *)

CallsOf(fn) == SelectSeq(calls, LAMBDA c : c.fn = fn)
SummaryCalls == CallsOf("wiki_summary")
TleCalls == CallsOf("celestrak_tle")
QidCalls == CallsOf("wikidata_qid_from_title")

\* the candidates of a chain that are present, in the given order
Present(cands) == SelectSeq(cands, LAMBDA c : Truthy(c[1]))

\* the call returned a value and the value is empty
Empty(c) == c.ret # Raised /\ ~Truthy(c.ret)

\* cs are calls on a prefix of the candidates, each but the last returning empty
ChainOn(cs, cands) ==
    /\ Len(cs) <= Len(cands)
    /\ \A i \in 1..Len(cs) : cs[i].args = cands[i]
    /\ \A i \in 1..(Len(cs) - 1) : Empty(cs[i])

SummaryPhaseOver == pc \in {"SummaryUnavailable", "tle_exact", "tle_loop", "render", "done"}
TlePhaseOver == pc \in {"render", "done"}

\* C1: the summary adapter is called on the present candidates in the order
\* ko sitelink title, ko search title, en sitelink title, en search title; no
\* candidate is tried after one returned a non-empty summary; the summary kept
\* is that first non-empty one; and the run ends in SummaryUnavailable exactly
\* when every present candidate was tried and returned empty.
C1_SummaryOrder ==
    LET cands == Present(<< <<ko_title_from_qid, "ko">>, <<title_ko, "ko">>,
                            <<en_title_from_qid, "en">>, <<title_en, "en">> >>)
        cs == SummaryCalls
    IN  /\ ChainOn(cs, cands)
        /\ SummaryPhaseOver =>
             IF cs # <<>> /\ Truthy(cs[Len(cs)].ret)
             THEN pc # "SummaryUnavailable" /\ summary = cs[Len(cs)].ret
             ELSE /\ pc = "SummaryUnavailable"
                  /\ Len(cs) = Len(cands)
                  /\ \A i \in 1..Len(cs) : Empty(cs[i])

\* only the third-priority source (the en sitelink title) returned a summary
C1_Witness ==
    /\ pc = "done"
    /\ Len(SummaryCalls) = 3
    /\ SummaryCalls[3].args = <<en_title_from_qid, "en">>
    /\ summary = SummaryOf(en_title_from_qid, "en")
    /\ Truthy(title_en)

\* some run ends in SummaryUnavailable after four empty attempts
C1_WitnessUnavailable == pc = "SummaryUnavailable" /\ Len(SummaryCalls) = 4

\* C2 as stated: with the flag false the catalog adapter is never called with
\* the raw input query, and the candidates are tried in the order en sitelink,
\* en search, ko sitelink, ko search up to the first non-empty result.
C2_Original ==
    ~use_exact =>
        /\ \A i \in 1..Len(TleCalls) : TleCalls[i].args # <<q>>
        /\ ChainOn(TleCalls, Present(<< <<en_title_from_qid>>, <<title_en>>,
                                        <<ko_title_from_qid>>, <<title_ko>> >>))

\* C2 amended: with the flag false the handler makes no attempt of its own for
\* the raw query: the catalog calls are exactly a prefix of the present
\* candidates en sitelink, en search, ko sitelink, ko search (so the adapter
\* sees the query text only when such a title equals it), each but the last
\* returned nothing, and the lines kept are those of the first non-empty
\* attempt, or none when every candidate was tried in vain.
C2_FallbackOrder ==
    LET cands == Present(<< <<en_title_from_qid>>, <<title_en>>,
                            <<ko_title_from_qid>>, <<title_ko>> >>)
        cs == TleCalls
    IN  ~use_exact =>
          /\ ChainOn(cs, cands)
          /\ TlePhaseOver =>
               IF cs # <<>> /\ Truthy(cs[Len(cs)].ret)
               THEN tle = cs[Len(cs)].ret
               ELSE /\ ~Truthy(tle)
                    /\ Len(cs) = Len(cands)
                    /\ \A i \in 1..Len(cs) : Empty(cs[i])

\* flag false, the first three candidates returned nothing, the fourth did
C2_Witness ==
    /\ ~use_exact /\ pc = "done"
    /\ Len(TleCalls) = 4
    /\ Truthy(tle) /\ tle = TleCalls[4].ret
    /\ TleCalls[4].args = <<title_ko>>
    /\ title_ko \notin {title_en, en_title_from_qid, ko_title_from_qid}

\* C3: with the flag true the first catalog call is for the raw query, and when
\* it returns data no other catalog call is made and its lines are the ones kept.
C3_ExactMatch ==
    use_exact /\ TleCalls # <<>> =>
        /\ TleCalls[1].args = <<q>>
        /\ Truthy(TleCalls[1].ret) =>
             /\ Len(TleCalls) = 1
             /\ tle = TleCalls[1].ret
             /\ pc \in {"render", "done", "raised"}

C3_Witness ==
    /\ use_exact /\ pc = "done"
    /\ Len(TleCalls) = 1 /\ Truthy(tle)
    /\ Truthy(en_title_from_qid) /\ Truthy(title_ko)

\* C4: when both searches returned and neither gave a title, the run is in
\* NotFound and the two searches are its only adapter calls.
C4_NotFound ==
    (/\ Len(calls) >= 2
     /\ calls[2].ret # Raised
     /\ ~Truthy(title_ko) /\ ~Truthy(title_en))
    => /\ pc = "NotFound"
       /\ Len(calls) = 2
       /\ \A i \in 1..2 : calls[i].fn = "wiki_search_title"

C4_Witness == pc = "NotFound" /\ Len(calls) = 2

\* C5: the ko title is resolved first and the en title only after the ko
\* attempt (if any) gave no identifier; at most one call gives an identifier
\* and that one is kept, so an identifier from the ko title is never replaced.
C5_QidPreference ==
    LET cs == QidCalls IN
    /\ Len(cs) <= 2
    /\ \A i \in 1..Len(cs) :
         /\ cs[i].args[2] = "ko" => i = 1 /\ cs[i].args[1] = title_ko
         /\ cs[i].args[2] = "en" =>
              /\ cs[i].args[1] = title_en
              /\ \A j \in 1..(i - 1) : cs[j].args[2] = "ko" /\ Empty(cs[j])
    /\ Cardinality({i \in 1..Len(cs) : Truthy(cs[i].ret)}) <= 1
    /\ \A i \in 1..Len(cs) : Truthy(cs[i].ret) => qid = cs[i].ret
    /\ Truthy(title_ko) /\ pc \in {"qid_en", "entity", "summary", "tle_exact", "done"}
         => cs # <<>> /\ cs[1].args = <<title_ko, "ko">>
    /\ Truthy(qid) => cs # <<>>

\* both titles exist and the ko one resolved: one call, its identifier kept
C5_Witness ==
    /\ pc = "done"
    /\ Truthy(title_ko) /\ Truthy(title_en)
    /\ Len(QidCalls) = 1 /\ QidCalls[1].args[2] = "ko"
    /\ Truthy(qid)

\* C6 as stated: once a title exists and a non-empty summary was obtained the
\* run goes on to the result record and never aborts.
C6_NeverAborts ==
    (Truthy(title_ko) \/ Truthy(title_en)) /\ Truthy(summary)
        => pc \in {"summary", "tle_exact", "tle_loop", "render", "done"}

\* C7 as stated: no adapter call ever raises to the handler.
C7_FailSoft == \A i \in 1..Len(calls) : calls[i].ret # Raised

---------------------------------------------------------------------------
(* celestrak_tle on every short response text *)

MaxTextLen == 7
Chars == {"a", " ", "\n", NoGPData}
Texts == UNION {[1..n -> Chars] : n \in 0..MaxTextLen}

InitTle ==
    /\ r_status \in {200, 404}
    /\ r_text \in Texts
    /\ tle_out = Pending
    /\ q = PyStr(<<"a">>) /\ use_exact = TRUE
    /\ HandlerIdle /\ GcIdle /\ CacheIdle

CelestrakTle ==
    /\ tle_out = Pending
    /\ tle_out' = celestrak_tle(q, TextResponse(r_status, r_text))
    /\ UNCHANGED <<r_status, r_text, handlerVars, gcVars, cacheVars>>

NextTle == CelestrakTle

SpecTle == InitTle /\ [][NextTle]_vars

\* the non-blank lines of the response text as it came
RawLines == SelectSeq(SplitLines(r_text), IsNonBlank)

NoCatalogData == r_status # 200 \/ Contains(r_text, NoGPData) \/ RawLines = <<>>

\* C8 as stated: the result is absent or exactly the first three non-blank
\* lines of the response text, and absent when the status is not 200, the text
\* holds "No GP data" or the text has no non-blank line.
C8_Original ==
    tle_out # Pending =>
        /\ NoCatalogData => tle_out = PyNone
        /\ tle_out # PyNone =>
             /\ tle_out.t = "list" /\ Len(tle_out.v) = 3
             /\ \A i \in 1..3 : tle_out.v[i] = PyStr(RawLines[i])

\* line i of the result: the i-th non-blank line, the first without its leading
\* and the text's last one without its trailing whitespace
TrimmedLine(i) ==
    LET l == RawLines[i]
        l1 == IF i = 1 THEN LStrip(l) ELSE l
    IN  IF i = Len(RawLines) THEN RStrip(l1) ELSE l1

\* C8 amended: the result is absent exactly when the status is not 200, the
\* text holds "No GP data" or the text has no non-blank line; otherwise it is
\* the first min(3, n) of the text's n non-blank lines, in order (fewer than
\* three when the text has fewer), the first without its leading and the
\* text's last non-blank line without its trailing whitespace.
C8_UpToThreeLines ==
    tle_out # Pending =>
        IF NoCatalogData THEN tle_out = PyNone
        ELSE LET k == IF Len(RawLines) < 3 THEN Len(RawLines) ELSE 3 IN
             /\ tle_out.t = "list" /\ Len(tle_out.v) = k
             /\ \A i \in 1..k : tle_out.v[i] = PyStr(TrimmedLine(i))

\* a text of four non-blank lines gave three
C8_Witness ==
    /\ tle_out # Pending /\ tle_out # PyNone
    /\ Len(RawLines) = 4 /\ Len(tle_out.v) = 3

\* a text of two non-blank lines gave two
C8_WitnessShort ==
    /\ tle_out # Pending /\ tle_out # PyNone
    /\ Len(RawLines) = 2 /\ Len(tle_out.v) = 2

---------------------------------------------------------------------------
(* get_claim_value on entities with missing and malformed parts *)

Props == {"P619", "P247", "P593"}

ClaimValues ==
    {PyNone, PyStr(<<>>), PyStr(<<"s">>), EmptyDict,
     PyDict([time |-> PyStr(<<"t">>)]), PyDict([amount |-> PyStr(<<"1">>)])}
DataValues == {EmptyDict, PyNone} \cup {PyDict([value |-> x]) : x \in ClaimValues}
MainSnaks == {EmptyDict, PyNone} \cup {PyDict([datavalue |-> d]) : d \in DataValues}
Statements == {EmptyDict, PyNone} \cup {PyDict([mainsnak |-> m]) : m \in MainSnaks}
PropEntries ==
    {PyNone, EmptyList, PyStr(<<"s">>), PyDict([rank |-> PyNone])}
    \cup {PyList(<<st>>) : st \in Statements}
    \cup {PyList(<<st, GoodStatement>>) : st \in Statements}
ClaimsMaps == {EmptyDict, PyNone} \cup {PyDict([P619 |-> e]) : e \in PropEntries}
ClaimEntities == {EmptyDict} \cup {PyDict([claims |-> c]) : c \in ClaimsMaps}

InitClaim ==
    /\ gc_ent \in ClaimEntities
    /\ gc_prop \in Props
    /\ gc_out = Pending
    /\ q = PyStr(<<"a">>) /\ use_exact = TRUE
    /\ HandlerIdle /\ TleIdle /\ CacheIdle

GetClaimValue ==
    /\ gc_out = Pending
    /\ gc_out' = get_claim_value(gc_ent, gc_prop, "time|str")
    /\ UNCHANGED <<gc_ent, gc_prop, handlerVars, tleVars, cacheVars>>

NextClaim == GetClaimValue

SpecClaim == InitClaim /\ [][NextClaim]_vars

\* C9 as stated: get_claim_value never fails; it returns absent, the time
\* string or the plain string for every entity and property.
C9_NeverFails ==
    gc_out # Pending => gc_out # Raised /\ gc_out.t \in {"none", "str"}

---------------------------------------------------------------------------
(* @st.cache_data(ttl=3600): the memo every adapter is wrapped in *)

ttl == 3600
\* seconds that may pass between two calls
Delays == {1799, 1800}
\* the clock stops after this many of the longest delays
MaxTicks == 3
MaxClock == MaxTicks * 1800

\* (adapter, parameters)
CacheKeys == {<<"wiki_search_title", "a", "ko">>, <<"wiki_search_title", "a", "en">>,
              <<"celestrak_tle", "a">>}
\* what the wrapped function may do on a request
Outcomes == {PyStr(<<"a">>), PyNone, Raised}

NoEntry == [has |-> FALSE, val |-> PyNone, at |-> 0]

\* an entry serves calls until ttl seconds after it was stored
Fresh_forever(e, t) == e.has

Fresh(e, t) == e.has /\ t - e.at < ttl

InitCache ==
    /\ cache = [k \in CacheKeys |-> NoEntry]
    /\ now = 0
    /\ last = [key |-> <<>>, ret |-> PyNone, fetched |-> FALSE, flip |-> FALSE]
    /\ q = PyStr(<<"a">>) /\ use_exact = TRUE
    /\ HandlerIdle /\ TleIdle /\ GcIdle

\* a call of a wrapped adapter: the stored value while fresh, else the function
\* runs (one request) and its value, unless it raised, is stored
CachedCall(k) ==
    /\ IF Fresh(cache[k], now)
       THEN /\ last' = [key |-> k, ret |-> cache[k].val, fetched |-> FALSE,
                        flip |-> ~last.flip]
            /\ UNCHANGED cache
       ELSE \E out \in Outcomes :
            /\ last' = [key |-> k, ret |-> out, fetched |-> TRUE, flip |-> ~last.flip]
            /\ cache' = IF out = Raised THEN [cache EXCEPT ![k] = NoEntry]
                        ELSE [cache EXCEPT ![k] = [has |-> TRUE, val |-> out, at |-> now]]
    /\ UNCHANGED <<now, handlerVars, tleVars, gcVars>>

Tick(d) ==
    /\ now + d <= MaxClock
    /\ now' = now + d
    /\ UNCHANGED <<cache, last, handlerVars, tleVars, gcVars>>

NextCache ==
    \/ \E k \in CacheKeys : CachedCall(k)
    \/ \E d \in Delays : Tick(d)

SpecCache == InitCache /\ [][NextCache]_vars

C10_WitnessExpired ==
    /\ last.key # <<>> /\ last.fetched /\ last.ret # Raised
    /\ now >= 3600

====
